---------------------------- MODULE Spec2Model ----------------------------
(***************************************************************************)
(* Swapex chat backend: the conversation store (models.js), the            *)
(* request/response routes (routes.js) and the realtime room router        *)
(* (index.js, and the older server variant kept in unnamed/part_000 and    *)
(* part_001).                                                              *)
(*                                                                         *)
(* Every handler is an async function: it runs synchronously up to an      *)
(* await on a store operation, the store executes the operation at some    *)
(* later point, and the handler resumes with the answer.  Each of these    *)
(* segments is one action; segments of different handlers interleave.      *)
(***************************************************************************)
EXTENDS Naturals, Integers, Sequences, FiniteSets, TLC

(* ------------------------------ bounds -------------------------------- *)
MaxReq == 2      \* handlers in flight at one time
MaxConvs == 2    \* conversation records
MaxMsgs == 2     \* messages built (one ObjectId each)
MaxConns == 2    \* sockets
FewMsgs == 1     \* messages built while MaxConns sockets are followed
FewConns == 1    \* sockets followed while MaxMsgs messages are built

(* ------------------------- identifier values -------------------------- *)
(* A JavaScript value as it arrives on the wire or is stored in a Mixed    *)
(* field: t is its runtime shape, n tells values of one shape apart.       *)
(*   "null"  null / undefined          "num"  a number n                   *)
(*   "dstr"  a string of decimal digits whose value is n                   *)
(*   "hex"   a string that ObjectId.isValid accepts (and is not digits)    *)
(*   "str"   any other string          "oid"  an ObjectId instance         *)
Null == [t |-> "null", n |-> 0]
Num(k) == [t |-> "num", n |-> k]
DStr(k) == [t |-> "dstr", n |-> k]
HexStr(k) == [t |-> "hex", n |-> k]
Str(k) == [t |-> "str", n |-> k]
Oid(k) == [t |-> "oid", n |-> k]
(* An object literal {_id: a, id: b}; Null stands for a missing field.     *)
Obj(k, a, b) == [t |-> "obj", n |-> k, f_id |-> a, fid |-> b]

(* routes.js normalizeVal, identical in index.js *)
NormalizeVal(v) ==
    IF v.t = "null" THEN Null
    ELSE IF v.t = "obj"
         THEN IF v.f_id.t # "null" THEN v.f_id
              ELSE IF v.fid.t # "null" THEN v.fid ELSE v
    ELSE IF v.t = "dstr" THEN Num(v.n)
    ELSE IF v.t = "hex" THEN Oid(v.n)
    ELSE v

(* ------------------------------ inputs -------------------------------- *)
Products == {Num(101)}
Parties == {DStr(7), Num(8)}
Senders == {DStr(7)}
Texts == {"hello"}
Conns == 1..MaxConns
(* Conversation ids a client may name: 0 is a malformed id (not castable   *)
(* to an ObjectId); the others are well formed, and name a record only     *)
(* once that record has been inserted.                                     *)
BadId == 0
ConvIds == 0..MaxConvs
RoomIds == 1..MaxConvs

VARIABLES
    server,     \* which server file runs: "index" or "part_000"
    convs,      \* the Conversation collection, in insertion order; _id = index
    reqs,       \* the handler invocations in flight, one per slot
    sockets,    \* per connection: "new", "connected" or "disconnected"
    rooms,      \* per connection: the rooms it has joined (socket.rooms)
    out,        \* per connection: the events emitted to it by the last step
    resp,       \* the HTTP response sent by the last step
    nextOid,    \* ObjectId generator for message sub-documents
    answers,    \* history: the (query, id) pairs create-or-get has answered
    committed,  \* history: the appends the store has applied
    completed,  \* history: the messages whose append handler has finished
    raw,          \* a value handed to normalizeVal
    normalized,   \* normalizeVal(raw), once computed
    renormalized  \* normalizeVal(normalizeVal(raw)), once computed

normVars == <<raw, normalized, renormalized>>
vars == <<server, convs, reqs, sockets, rooms, out, resp, nextOid,
          answers, committed, completed, raw, normalized, renormalized>>

(* Date.now / new Date(): the server clock read when a message is built.   *)
(* One message is built per ObjectId drawn, and the clock has moved on     *)
(* between two readings.                                                   *)
now == nextOid

(* --------------------------- the store -------------------------------- *)
(* A query of findOne / findOneAndUpdate: a field holding Null is a field  *)
(* the handler left out of the query object (routes.js 35-38).             *)
BuildQuery(product, buyer, seller) ==
    [product |-> product, buyer |-> buyer, seller |-> seller]

(* MongoDB equality match of one document against a query: every field    *)
(* present in the query must equal the stored value; strings, numbers and  *)
(* ObjectIds never equal one another.                                      *)
Matches(c, q) ==
    /\ (q.product.t # "null" => c.product = q.product)
    /\ (q.buyer.t # "null" => c.buyer = q.buyer)
    /\ (q.seller.t # "null" => c.seller = q.seller)

MatchIds(cs, q) == {i \in 1..Len(cs) : Matches(cs[i], q)}

Min(S) == CHOOSE x \in S : \A y \in S : x <= y

(* findOne: the first matching document in natural order, 0 for null *)
FindOne(cs, q) == IF MatchIds(cs, q) = {} THEN 0 ELSE Min(MatchIds(cs, q))

(* findById: 0 for null (an id that cannot be cast never gets here) *)
FindById(cs, id) == IF id \in 1..Len(cs) THEN id ELSE 0

(* $setOnInsert: { product, buyer, seller, messages: [] } *)
NewConversation(product, buyer, seller) ==
    [product |-> product, buyer |-> buyer, seller |-> seller, messages |-> <<>>]

(* a $set of the same fields: what $setOnInsert must not do on a match *)
SetOnMatch(c, doc) == NewConversation(doc.product, doc.buyer, doc.seller)

(* $setOnInsert: {...} applied to a document the query matched: nothing *)
UpdateOnMatch(c, doc) == c

(* $push with $position: 0 *)
PushFront(msgs, m) == <<m>> \o msgs

(* a $set of the array to the one new element *)
PushOverwrite(msgs, m) == <<m>>

(* $push: { messages: m } applied to a stored message array *)
PushMessage(msgs, m) == Append(msgs, m)

(* a message sub-document as messageSchema casts it *)
StoredMessage(oid, sender, text, createdAt) ==
    [oid |-> oid, sender |-> sender, text |-> text, createdAt |-> createdAt]

(* findOneAndReplace(id, {messages: [...old, m]}): the record loses its keys *)
ReplaceById(cs, id, m) ==
    IF FindById(cs, id) = 0 THEN cs
    ELSE [cs EXCEPT ![id] = [NewConversation(Null, Null, Null) EXCEPT
                                 !.messages = PushMessage(cs[id].messages, m)]]

(* findByIdAndUpdate(id, {$push: {messages: m}}, {new: true, upsert: true}) *)
PushByIdUpsert(cs, id, m) ==
    IF FindById(cs, id) = 0
    THEN Append(cs, [NewConversation(Null, Null, Null) EXCEPT !.messages = <<m>>])
    ELSE [cs EXCEPT ![id].messages = PushMessage(@, m)]

(* findByIdAndUpdate(id, {$push: {messages: m}}, {new: true}) for a        *)
(* castable id: the collection afterwards                                  *)
PushById(cs, id, m) ==
    IF FindById(cs, id) = 0 THEN cs
    ELSE [cs EXCEPT ![id].messages = PushMessage(@, m)]

(* --------------------------- handlers --------------------------------- *)
NoQuery == BuildQuery(Null, Null, Null)
NoMessage == StoredMessage(0, Null, "", 0)
(* a receive_message payload: sender, text and one time field, named       *)
(* createdAt (index.js 172-176) or timestamp (part_000 101-105)            *)
Payload(sender, text, field, time) ==
    [sender |-> sender, text |-> text, field |-> field, time |-> time]
NoPayload == Payload(Null, "", "", 0)
(* the optional message.timestamp a client may put in a send_message *)
ClientTime(given, at) == [given |-> given, at |-> at]
NoClientTime == ClientTime(FALSE, 0)
ClientTimes == {NoClientTime, ClientTime(TRUE, 0)}

(* One handler invocation in flight.  after: the messages whose append had *)
(* finished when this invocation started.                                  *)
Idle ==
    [kind |-> "idle", pc |-> "start", conn |-> 0, cid |-> 0,
     q |-> NoQuery, doc |-> NoQuery, msg |-> NoMessage, payload |-> NoPayload,
     res |-> 0, status |-> "",
     after |-> {}]

NewReq(kind, conn, cid) ==
    [Idle EXCEPT !.kind = kind, !.conn = conn, !.cid = cid, !.after = completed]

Slots == 1..MaxReq
InFlight(kind) == {i \in Slots : reqs[i].kind = kind}
FreeSlots == InFlight("idle")
(* a new invocation takes the lowest free slot *)
Start(r) ==
    /\ FreeSlots # {}
    /\ reqs' = [reqs EXCEPT ![Min(FreeSlots)] = r]
Finish(i) == reqs' = [reqs EXCEPT ![i] = Idle]

(* sends that have not built their message yet (part_000) *)
Unbuilt == {i \in Slots : reqs[i].kind = "send" /\ reqs[i].pc = "findById"}
(* an ObjectId is left for one more message when at most m are built *)
CanBuild(m) == nextOid + Cardinality(Unbuilt) <= m

Event(ev, payload, info, room, oid) ==
    [ev |-> ev, payload |-> payload, info |-> info, room |-> room, oid |-> oid]
Response(route, status, res) == [route |-> route, status |-> status, res |-> res]

NoOut == [c \in Conns |-> <<>>]
NoResp == Response("", "", 0)
Deliver(targets, e) == [c \in Conns |-> IF c \in targets THEN <<e>> ELSE <<>>]

(* io.to(room).emit: every connected socket that has joined the room *)
RoomMembers(room) == {c \in Conns : sockets[c] = "connected" /\ room \in rooms[c]}
(* a broadcast that reaches only sockets that have joined some room *)
ConnectedInARoom == {c \in Conns : sockets[c] = "connected" /\ rooms[c] # {}}

(* io.emit: every connected socket *)
AllConnected == {c \in Conns : sockets[c] = "connected"}

(* a normalizeVal result that has not been computed *)
Pending == [t |-> "pending", n |-> 0]

(* the server after construction *)
InitServer ==
    /\ server \in {"index", "part_000"}
    /\ convs = <<>>
    /\ reqs = [i \in Slots |-> Idle]
    /\ sockets = [c \in Conns |-> "new"]
    /\ rooms = [c \in Conns |-> {}]
    /\ out = NoOut
    /\ resp = NoResp
    /\ nextOid = 1
    /\ answers = {}
    /\ committed = {}
    /\ completed = {}

Init ==
    /\ InitServer
    /\ raw = Null /\ normalized = Pending /\ renormalized = Pending

(* ---- POST / : get or create a conversation (routes.js 23-81) ---------- *)
(* 28-43: normalize, build the query, issue findOne *)
PostStart(rawProduct, rawBuyer, rawSeller) ==
    LET product == NormalizeVal(rawProduct)
        buyer == NormalizeVal(rawBuyer)
        seller == NormalizeVal(rawSeller)
    IN /\ Start([NewReq("post", 0, 0) EXCEPT
                     !.pc = "findOne",
                     !.q = BuildQuery(product, buyer, seller),
                     !.doc = BuildQuery(product, buyer, seller)])
       /\ out' = NoOut /\ resp' = NoResp
       /\ UNCHANGED normVars
       /\ UNCHANGED <<server, convs, sockets, rooms, nextOid,
                      answers, committed, completed>>

(* 43-47: the store answers findOne (the answer is only logged); the       *)
(* handler issues findOneAndUpdate                                         *)
PostFindOne(i) ==
    /\ reqs[i].kind = "post" /\ reqs[i].pc = "findOne"
    /\ FindOne(convs, reqs[i].q) \in 0..Len(convs)
    /\ reqs' = [reqs EXCEPT ![i].pc = "upsert"]
    /\ out' = NoOut /\ resp' = NoResp
    /\ UNCHANGED normVars
    /\ UNCHANGED <<server, convs, sockets, rooms, nextOid,
                   answers, committed, completed>>

(* 47-59: findOneAndUpdate, query phase.  A match is returned as it is     *)
(* ($setOnInsert changes nothing on a match) and the handler answers; with *)
(* no match the store goes on to insert.  conversationSchema declares no   *)
(* unique index, so nothing makes the query phase and the insert one step  *)
(* against the upserts of other handlers.                                  *)
PostUpsertMatch(i) ==
    /\ reqs[i].kind = "post" /\ reqs[i].pc = "upsert"
    /\ LET found == FindOne(convs, reqs[i].q)
       IN IF found # 0
          THEN /\ convs' = [convs EXCEPT ![found] = UpdateOnMatch(@, reqs[i].doc)]
               /\ Finish(i)
               /\ resp' = Response("post", "200", found)
               /\ answers' = answers \cup {[q |-> reqs[i].q, id |-> found]}
          ELSE /\ reqs' = [reqs EXCEPT ![i].pc = "insert"]
               /\ resp' = NoResp
               /\ UNCHANGED <<convs, answers>>
    /\ out' = NoOut
    /\ UNCHANGED normVars
    /\ UNCHANGED <<server, sockets, rooms, nextOid, committed, completed>>

(* 47-59: findOneAndUpdate, insert phase; res.json(convo) *)
PostUpsertInsert(i) ==
    /\ reqs[i].kind = "post" /\ reqs[i].pc = "insert"
    /\ convs' = Append(convs, NewConversation(reqs[i].doc.product,
                                              reqs[i].doc.buyer,
                                              reqs[i].doc.seller))
    /\ Finish(i)
    /\ resp' = Response("post", "200", Len(convs) + 1)
    /\ answers' = answers \cup {[q |-> reqs[i].q, id |-> Len(convs) + 1]}
    /\ out' = NoOut
    /\ UNCHANGED normVars
    /\ UNCHANGED <<server, sockets, rooms, nextOid, committed, completed>>

(* ---- POST /:id/message : append over HTTP (routes.js 84-115) ---------- *)
(* the history entry of an append the store applied *)
Commit(i) == [oid |-> reqs[i].msg.oid, cid |-> reqs[i].cid, after |-> reqs[i].after]

(* the append route without its CastError branch: a failed cast reads as  *)
(* no record                                                               *)
AppendStatusNoCast(id, found) == IF found = 0 THEN "404" ELSE "200"

(* 96-104: the status the append route answers with *)
AppendStatus(id, found) ==
    IF id = BadId THEN "400" ELSE IF found = 0 THEN "404" ELSE "200"

(* 86-94: normalize the sender, issue findByIdAndUpdate with $push.  The   *)
(* update is cast on the way out: the sub-document gets its _id and the    *)
(* createdAt default (models.js 4-11).  An id that cannot be cast makes    *)
(* the query fail with CastError before it reaches the store (102-104).    *)
AppendStart(id, rawSender, text) ==
    /\ IF id = BadId
       THEN /\ resp' = Response("append", AppendStatus(id, 0), 0)
            /\ UNCHANGED <<reqs, nextOid>>
       ELSE /\ Start([NewReq("append", 0, id) EXCEPT
                  !.pc = "push",
                  !.msg = StoredMessage(nextOid, NormalizeVal(rawSender), text, now)])
            /\ nextOid' = nextOid + 1
            /\ resp' = NoResp
    /\ out' = NoOut
    /\ UNCHANGED normVars
    /\ UNCHANGED <<server, convs, sockets, rooms, answers, committed, completed>>

(* an append route that also emits receive_message to the room *)
AppendPushAndEmit(i) ==
    /\ reqs[i].kind = "append" /\ reqs[i].pc = "push"
    /\ LET id == reqs[i].cid
           found == FindById(convs, id)
       IN /\ convs' = PushById(convs, id, reqs[i].msg)
          /\ resp' = Response("append", AppendStatus(id, found), found)
          /\ committed' = IF found # 0 THEN committed \cup {Commit(i)} ELSE committed
          /\ completed' = IF found # 0 THEN completed \cup {reqs[i].msg.oid}
                          ELSE completed
          /\ out' = IF found = 0 THEN NoOut
                    ELSE Deliver(RoomMembers(id),
                                 Event("receive_message", NoPayload, "", id,
                                       reqs[i].msg.oid))
    /\ Finish(i)
    /\ UNCHANGED normVars
    /\ UNCHANGED <<server, sockets, rooms, nextOid, answers>>

(* 90-97: the store executes findByIdAndUpdate; the handler answers 200    *)
(* with the conversation, or 404 when there is no such record              *)
AppendPush(i) ==
    /\ reqs[i].kind = "append" /\ reqs[i].pc = "push"
    /\ LET id == reqs[i].cid
           found == FindById(convs, id)
       IN /\ convs' = PushById(convs, id, reqs[i].msg)
          /\ resp' = Response("append", AppendStatus(id, found), found)
          /\ committed' = IF found # 0 THEN committed \cup {Commit(i)} ELSE committed
          /\ completed' = IF found # 0 THEN completed \cup {reqs[i].msg.oid}
                          ELSE completed
    /\ Finish(i)
    /\ out' = NoOut
    /\ UNCHANGED normVars
    /\ UNCHANGED <<server, sockets, rooms, nextOid, answers>>

(* ---- realtime connections (index.js 159-206) -------------------------- *)
(* Socket.IO hands out a fresh socket per connection: socket c is the c-th *)
(* connection the server accepted                                          *)
Connect(c) ==
    /\ sockets[c] = "new"
    /\ \A d \in 1..(c - 1) : sockets[d] # "new"
    /\ sockets' = [sockets EXCEPT ![c] = "connected"]
    /\ out' = NoOut /\ resp' = NoResp
    /\ UNCHANGED normVars
    /\ UNCHANGED <<server, convs, reqs, rooms, nextOid,
                   answers, committed, completed>>

(* a join that first looks the conversation up and refuses unknown ids *)
JoinRoomIfExists(c, room) ==
    /\ sockets[c] = "connected"
    /\ FindById(convs, room) # 0
    /\ rooms' = [rooms EXCEPT ![c] = @ \cup {room}]
    /\ out' = NoOut /\ resp' = NoResp
    /\ UNCHANGED normVars
    /\ UNCHANGED <<server, convs, reqs, sockets, nextOid,
                   answers, committed, completed>>

(* 162-164: socket.join(conversationId); no store lookup *)
JoinRoom(c, room) ==
    /\ sockets[c] = "connected"
    /\ rooms' = [rooms EXCEPT ![c] = @ \cup {room}]
    /\ out' = NoOut /\ resp' = NoResp
    /\ UNCHANGED normVars
    /\ UNCHANGED <<server, convs, reqs, sockets, nextOid,
                   answers, committed, completed>>

(* a disconnect after which the socket is still listed in its rooms *)
DisconnectKeepsRooms(c) ==
    /\ sockets[c] = "connected"
    /\ sockets' = [sockets EXCEPT ![c] = "disconnected"]
    /\ out' = NoOut /\ resp' = NoResp
    /\ UNCHANGED normVars
    /\ UNCHANGED <<server, convs, reqs, rooms, nextOid, answers, committed, completed>>

(* 203-205: the handler does nothing; Socket.IO itself takes the socket    *)
(* out of every room                                                       *)
Disconnect(c) ==
    /\ sockets[c] = "connected"
    /\ sockets' = [sockets EXCEPT ![c] = "disconnected"]
    /\ rooms' = [rooms EXCEPT ![c] = {}]
    /\ out' = NoOut /\ resp' = NoResp
    /\ UNCHANGED normVars
    /\ UNCHANGED <<server, convs, reqs, nextOid, answers, committed, completed>>

(* 197-200: io.emit("newMessage", data) *)
LegacySendMessage(c, data) ==
    /\ sockets[c] = "connected"
    /\ out' = Deliver(AllConnected, Event("newMessage", NoPayload, data, 0, 0))
    /\ resp' = NoResp
    /\ UNCHANGED normVars
    /\ UNCHANGED <<server, convs, reqs, sockets, rooms, nextOid,
                   answers, committed, completed>>

(* ---- send_message ----------------------------------------------------- *)
(* io.emit in place of socket.emit *)
EmitToAll(c) == AllConnected

(* socket.emit: the socket itself, while it is connected *)
SocketTargets(c) == IF sockets[c] = "connected" THEN {c} ELSE {}

(* the handler without its if (conversation) test *)
SendStatusUnchecked(id, found) == IF id = BadId THEN "failed" ELSE "ok"

(* index.js 184-193: the outcome the handler acts on *)
SendStatus(id, found) ==
    IF id = BadId THEN "failed" ELSE IF found = 0 THEN "notfound" ELSE "ok"

(* the message_error event for an outcome (index.js 188, 192) *)
ErrorEvent(status, room) ==
    Event("message_error", NoPayload,
          IF status = "notfound" THEN "Conversation not found"
          ELSE "Failed to send message", room, 0)

(* a send_message handler that serves only sockets that joined the room *)
SendStartIfJoined(c, id, rawSender, text) ==
    /\ sockets[c] = "connected"
    /\ id \in rooms[c]
    /\ out' = NoOut
    /\ IF server = "index"
       THEN /\ Start([NewReq("send", c, id) EXCEPT
                 !.pc = "push",
                 !.msg = StoredMessage(nextOid, NormalizeVal(rawSender), text, now),
                 !.payload = Payload(NormalizeVal(rawSender), text,
                                     "createdAt", now)])
            /\ nextOid' = nextOid + 1
       ELSE /\ Start([NewReq("send", c, id) EXCEPT
                 !.pc = "findById",
                 !.msg = StoredMessage(0, rawSender, text, 0)])
            /\ UNCHANGED nextOid
    /\ resp' = NoResp
    /\ UNCHANGED normVars
    /\ UNCHANGED <<server, convs, sockets, rooms, answers, committed, completed>>

(* index.js 167-182: build normalizedMessage, issue findByIdAndUpdate.     *)
(* part_000 94-99: issue findById; the message is built after it answers.  *)
(* An id that cannot be cast makes either query fail with CastError before *)
(* it reaches the store, and the catch block emits message_error.          *)
SendStart(c, id, rawSender, text) ==
    /\ sockets[c] = "connected"
    /\ IF id = BadId
       THEN /\ out' = Deliver(SocketTargets(c), ErrorEvent(SendStatus(id, 0), id))
            /\ UNCHANGED <<reqs, nextOid>>
       ELSE /\ out' = NoOut
            /\ IF server = "index"
               THEN /\ Start([NewReq("send", c, id) EXCEPT
                         !.pc = "push",
                         !.msg = StoredMessage(nextOid, NormalizeVal(rawSender),
                                               text, now),
                         !.payload = Payload(NormalizeVal(rawSender), text,
                                             "createdAt", now)])
                    /\ nextOid' = nextOid + 1
               ELSE /\ Start([NewReq("send", c, id) EXCEPT
                         !.pc = "findById",
                         !.msg = StoredMessage(0, rawSender, text, 0)])
                    /\ UNCHANGED nextOid
    /\ resp' = NoResp
    /\ UNCHANGED normVars
    /\ UNCHANGED <<server, convs, sockets, rooms, answers, committed, completed>>

(* index.js 178-182: the store executes findByIdAndUpdate *)
SendPush(i) ==
    /\ reqs[i].kind = "send" /\ reqs[i].pc = "push"
    /\ LET id == reqs[i].cid
           found == FindById(convs, id)
       IN /\ convs' = PushById(convs, id, reqs[i].msg)
          /\ reqs' = [reqs EXCEPT ![i].res = found,
                                  ![i].status = SendStatus(id, found),
                                  ![i].pc = "emit"]
          /\ committed' = IF found # 0 THEN committed \cup {Commit(i)} ELSE committed
    /\ out' = NoOut /\ resp' = NoResp
    /\ UNCHANGED normVars
    /\ UNCHANGED <<server, sockets, rooms, nextOid, answers, completed>>

(* part_000 99-109: findById answers; on a hit the handler builds          *)
(* newMessage (timestamp: the client's message.timestamp when it sent one, *)
(* else new Date()), pushes it on the loaded document (the sub-document is *)
(* cast here: _id and the createdAt default) and issues save()             *)
SendFindById(i, cts) ==
    /\ reqs[i].kind = "send" /\ reqs[i].pc = "findById"
    /\ LET id == reqs[i].cid
           found == FindById(convs, id)
           m == reqs[i].msg
           time == IF cts.given THEN cts.at ELSE now
       IN IF found # 0
          THEN /\ reqs' = [reqs EXCEPT
                      ![i].res = found,
                      ![i].msg = StoredMessage(nextOid, m.sender, m.text, now),
                      ![i].payload = Payload(m.sender, m.text, "timestamp", time),
                      ![i].pc = "save"]
               /\ nextOid' = nextOid + 1
          ELSE /\ cts = NoClientTime
               /\ reqs' = [reqs EXCEPT ![i].status = SendStatus(id, found),
                                       ![i].pc = "emit"]
               /\ UNCHANGED nextOid
    /\ out' = NoOut /\ resp' = NoResp
    /\ UNCHANGED normVars
    /\ UNCHANGED <<server, convs, sockets, rooms, answers, committed, completed>>

(* part_000 108-109: save() of a document whose only change is a push      *)
(* sends $push of the new element for the document's _id                   *)
SendSave(i) ==
    /\ reqs[i].kind = "send" /\ reqs[i].pc = "save"
    /\ convs' = PushById(convs, reqs[i].res, reqs[i].msg)
    /\ reqs' = [reqs EXCEPT ![i].status = "ok", ![i].pc = "emit"]
    /\ committed' = committed \cup {Commit(i)}
    /\ out' = NoOut /\ resp' = NoResp
    /\ UNCHANGED normVars
    /\ UNCHANGED <<server, sockets, rooms, nextOid, answers, completed>>

(* io.emit in place of io.to(room).emit *)
BroadcastToAll(room) == AllConnected

(* io.to(conversationId): the sockets a room broadcast reaches *)
BroadcastTargets(room) == RoomMembers(room)

(* a handler that emits on success only and ends silently otherwise *)
SendEmitOnSuccessOnly(i) ==
    /\ reqs[i].kind = "send" /\ reqs[i].pc = "emit"
    /\ out' =
         IF reqs[i].status = "ok"
         THEN Deliver(BroadcastTargets(reqs[i].cid),
                      Event("receive_message", reqs[i].payload, "",
                            reqs[i].cid, reqs[i].msg.oid))
         ELSE NoOut
    /\ completed' = IF reqs[i].status = "ok" THEN completed \cup {reqs[i].msg.oid}
                    ELSE completed
    /\ Finish(i)
    /\ resp' = NoResp
    /\ UNCHANGED normVars
    /\ UNCHANGED <<server, convs, sockets, rooms, nextOid, answers, committed>>

(* index.js 184-193, part_000 111-119: the handler resumes and emits       *)
SendEmit(i) ==
    /\ reqs[i].kind = "send" /\ reqs[i].pc = "emit"
    /\ out' =
         IF reqs[i].status = "ok"
         THEN Deliver(BroadcastTargets(reqs[i].cid),
                      Event("receive_message", reqs[i].payload, "",
                            reqs[i].cid, reqs[i].msg.oid))
         ELSE Deliver(SocketTargets(reqs[i].conn),
                      ErrorEvent(reqs[i].status, reqs[i].cid))
    /\ completed' = IF reqs[i].status = "ok" THEN completed \cup {reqs[i].msg.oid}
                    ELSE completed
    /\ Finish(i)
    /\ resp' = NoResp
    /\ UNCHANGED normVars
    /\ UNCHANGED <<server, convs, sockets, rooms, nextOid, answers, committed>>

(* ---- read routes (routes.js 118-147) ---------------------------------- *)
(* parseInt of a query-string parameter *)
ParseInt(v) == IF v.t = "dstr" THEN Num(v.n) ELSE [t |-> "nan", n |-> 0]

(* 120-124: the filter of GET /; an empty parameter is left out *)
ListQuery(seller, buyer, product) ==
    BuildQuery(IF product.t = "null" THEN Null ELSE ParseInt(product),
               IF buyer.t = "null" THEN Null ELSE ParseInt(buyer),
               IF seller.t = "null" THEN Null ELSE ParseInt(seller))

(* 127-129: what GET / answers in the current state *)
ListResponse(seller, buyer, product) ==
    [status |-> "200", hits |-> MatchIds(convs, ListQuery(seller, buyer, product))]

(* 118-134: GET / reads and answers; nothing is written *)
ListConversations(seller, buyer, product) ==
    /\ ListResponse(seller, buyer, product).status = "200"
    /\ UNCHANGED vars

(* 140-146: what GET /:id answers in the current state *)
GetResponse(id) ==
    LET found == FindById(convs, id)
    IN Response("get", IF id = BadId THEN "500"
                       ELSE IF found = 0 THEN "404" ELSE "200", found)

(* 137-147: GET /:id reads and answers; nothing is written *)
GetConversation(id) ==
    /\ GetResponse(id).status \in {"200", "404", "500"}
    /\ UNCHANGED vars

ListFilters == {Null, DStr(7)}
LegacyData == {"hi"}

(* a create-or-get call may start while a record is left for it *)
CanCreate == Len(convs) + Cardinality(InFlight("post")) < MaxConvs

(* every step but the start of a create-or-get call, with the sockets      *)
(* 1..conns and at most msgs messages                                      *)
OtherStep(conns, msgs) ==
    \/ \E i \in Slots : PostFindOne(i)
    \/ \E i \in Slots : PostUpsertMatch(i)
    \/ \E i \in Slots : PostUpsertInsert(i)
    \/ \E id \in ConvIds, s \in Senders, x \in Texts :
          (id # BadId => CanBuild(msgs)) /\ AppendStart(id, s, x)
    \/ \E i \in Slots : AppendPush(i)
    \/ \E c \in 1..conns : Connect(c)
    \/ \E c \in 1..conns, r \in RoomIds : JoinRoom(c, r)
    \/ \E c \in 1..conns : Disconnect(c)
    \/ \E c \in 1..conns, d \in LegacyData : LegacySendMessage(c, d)
    \/ \E c \in 1..conns, id \in ConvIds, s \in Senders, x \in Texts :
          (id # BadId => CanBuild(msgs)) /\ SendStart(c, id, s, x)
    \/ \E i \in Slots : SendPush(i)
    \/ \E i \in Slots, ts \in ClientTimes : SendFindById(i, ts)
    \/ \E i \in Slots : SendSave(i)
    \/ \E i \in Slots : SendEmit(i)
    \/ \E s \in ListFilters : ListConversations(s, Null, Null)
    \/ \E id \in ConvIds : GetConversation(id)

(* create-or-get calls start at any time, also while others are in flight *)
PostAnyTime ==
    \E p \in Products, b \in Parties : \E s \in Parties \ {b} :
        CanCreate /\ PostStart(p, b, s)

(* create-or-get calls made one after the other: a call starts only when   *)
(* no other create-or-get call is in flight                                *)
PostInTurn ==
    \E p \in Products, b \in Parties : \E s \in Parties \ {b} :
        CanCreate /\ InFlight("post") = {} /\ PostStart(p, b, s)

(* one socket, MaxMsgs messages *)
Next == PostAnyTime \/ OtherStep(FewConns, MaxMsgs)
Spec == Init /\ [][Next]_vars

(* one socket, MaxMsgs messages, create-or-get calls in turn *)
NextSeq == PostInTurn \/ OtherStep(FewConns, MaxMsgs)
SpecSeq == Init /\ [][NextSeq]_vars

(* MaxConns sockets, FewMsgs messages *)
NextRooms == PostAnyTime \/ OtherStep(MaxConns, FewMsgs)
SpecRooms == Init /\ [][NextRooms]_vars

(* create-or-get calls in turn whose buyer or seller may be missing from   *)
(* the request body (routes.js 28: the destructured field is undefined)    *)
MaybeParties == Parties \cup {Null}
PostMaybeAbsent ==
    \E p \in Products, b \in MaybeParties : \E s \in MaybeParties \ {b} :
        CanCreate /\ InFlight("post") = {} /\ PostStart(p, b, s)

(* one socket, FewMsgs messages, create-or-get calls with missing fields *)
NextAbsent == PostMaybeAbsent \/ OtherStep(FewConns, FewMsgs)
SpecAbsent == Init /\ [][NextAbsent]_vars

(* ---- store failures ---------------------------------------------------- *)
(* err.name of the rejection a store operation gives when the store is     *)
(* unreachable or the operation times out                                  *)
StoreErrors == {"MongoNetworkError", "MongoServerSelectionError"}

(* routes.js 66-79: the status of the catch block of POST / *)
PostErrorStatus(err) ==
    IF err \in {"MongoNetworkError", "MongoServerSelectionError"} THEN "503"
    ELSE IF err = "ValidationError" THEN "400" ELSE "500"

(* routes.js 102-113: the status of the catch block of POST /:id/message *)
AppendErrorStatus(err) ==
    IF err = "CastError" THEN "400"
    ELSE IF err \in {"MongoNetworkError", "MongoServerSelectionError"} THEN "503"
    ELSE "500"

(* routes.js 130-133, 143-146: the catch blocks of GET / and GET /:id *)
ReadErrorStatus(err) == "500"

(* routes.js 43-51, 60-80: findOne or findOneAndUpdate is rejected *)
PostFail(i, err) ==
    /\ reqs[i].kind = "post"
    /\ Finish(i)
    /\ resp' = Response("post", PostErrorStatus(err), 0)
    /\ out' = NoOut
    /\ UNCHANGED normVars
    /\ UNCHANGED <<server, convs, sockets, rooms, nextOid,
                   answers, committed, completed>>

(* routes.js 90-94, 98-114: findByIdAndUpdate is rejected *)
AppendFail(i, err) ==
    /\ reqs[i].kind = "append"
    /\ Finish(i)
    /\ resp' = Response("append", AppendErrorStatus(err), 0)
    /\ out' = NoOut
    /\ UNCHANGED normVars
    /\ UNCHANGED <<server, convs, sockets, rooms, nextOid,
                   answers, committed, completed>>

(* routes.js 127-133: find is rejected *)
ListFail(err) ==
    /\ resp' = Response("list", ReadErrorStatus(err), 0)
    /\ out' = NoOut
    /\ UNCHANGED normVars
    /\ UNCHANGED <<server, convs, reqs, sockets, rooms, nextOid,
                   answers, committed, completed>>

(* routes.js 140-146: findById is rejected *)
GetFail(id, err) ==
    /\ id # BadId
    /\ resp' = Response("get", ReadErrorStatus(err), 0)
    /\ out' = NoOut
    /\ UNCHANGED normVars
    /\ UNCHANGED <<server, convs, reqs, sockets, rooms, nextOid,
                   answers, committed, completed>>

(* index.js 178-182 and 190-193 (part_000 99, 109, 116-119): the store     *)
(* operation of send_message is rejected; the catch block runs next        *)
SendFail(i) ==
    /\ reqs[i].kind = "send" /\ reqs[i].pc # "emit"
    /\ reqs' = [reqs EXCEPT ![i].status = "failed", ![i].pc = "emit"]
    /\ out' = NoOut /\ resp' = NoResp
    /\ UNCHANGED normVars
    /\ UNCHANGED <<server, convs, sockets, rooms, nextOid,
                   answers, committed, completed>>

(* a store that may reject any operation *)
StoreFails ==
    \/ \E i \in Slots, e \in StoreErrors : PostFail(i, e)
    \/ \E i \in Slots, e \in StoreErrors : AppendFail(i, e)
    \/ \E e \in StoreErrors : ListFail(e)
    \/ \E id \in ConvIds, e \in StoreErrors : GetFail(id, e)
    \/ \E i \in Slots : SendFail(i)

(* one socket, FewMsgs messages, create-or-get calls in turn, a store that *)
(* may fail                                                                *)
NextFaulty == PostInTurn \/ OtherStep(FewConns, FewMsgs) \/ StoreFails
SpecFaulty == Init /\ [][NextFaulty]_vars

(* ---- senders that are no party of any conversation -------------------- *)
(* a sender id that no create-or-get call names as buyer or seller *)
Strangers == {DStr(9)}

(* an append or a send_message whose sender is a stranger *)
StrangerStep ==
    \/ \E id \in RoomIds, s \in Strangers, x \in Texts :
          CanBuild(FewMsgs) /\ AppendStart(id, s, x)
    \/ \E c \in 1..FewConns, id \in RoomIds, s \in Strangers, x \in Texts :
          CanBuild(FewMsgs) /\ SendStart(c, id, s, x)

(* one socket, FewMsgs messages, create-or-get calls in turn, any sender *)
NextStranger == PostInTurn \/ OtherStep(FewConns, FewMsgs) \/ StrangerStep
SpecStranger == Init /\ [][NextStranger]_vars

(* ---- scheduling ------------------------------------------------------- *)
(* the store answers or rejects the operation the send_message handler in  *)
(* slot i is waiting for                                                   *)
StoreAnswers(i) ==
    \/ SendPush(i)
    \/ \E ts \in ClientTimes : SendFindById(i, ts)
    \/ SendSave(i)
    \/ SendFail(i)

(* every store operation is answered or rejected in the end, and the event *)
(* loop runs every continuation that is ready                              *)
Fairness ==
    \A i \in Slots : WF_vars(StoreAnswers(i)) /\ WF_vars(SendEmit(i))

SpecLive == Init /\ [][NextFaulty]_vars /\ Fairness

(* ---- normalizeVal on its own (routes.js 8-20, index.js 74-85) --------- *)
(* The shapes a client can put on the wire: null, an integer, a string of  *)
(* digits, a string ObjectId.isValid accepts, any other string, and an     *)
(* object whose _id and id fields each hold one of these or are missing.   *)
NormIds == {7, 8}
FlatValues ==
    {Null} \cup {Num(k) : k \in NormIds} \cup {DStr(k) : k \in NormIds}
           \cup {HexStr(k) : k \in NormIds} \cup {Str(k) : k \in NormIds}
NormInputs == FlatValues \cup {Obj(0, a, b) : a \in FlatValues, b \in FlatValues}

InitNorm ==
    /\ InitServer
    /\ raw \in NormInputs /\ normalized = Pending /\ renormalized = Pending

(* normalizeVal(raw) *)
NormalizeOnce ==
    /\ normalized = Pending
    /\ normalized' = NormalizeVal(raw)
    /\ UNCHANGED <<server, convs, reqs, sockets, rooms, out, resp, nextOid,
                   answers, committed, completed, raw, renormalized>>

(* normalizeVal applied to its own result *)
NormalizeTwice ==
    /\ normalized # Pending /\ renormalized = Pending
    /\ renormalized' = NormalizeVal(normalized)
    /\ UNCHANGED <<server, convs, reqs, sockets, rooms, out, resp, nextOid,
                   answers, committed, completed, raw, normalized>>

NextNorm == NormalizeOnce \/ NormalizeTwice
SpecNorm == InitNorm /\ [][NextNorm]_vars

(* ======================= create-or-get properties ===================== *)
(* two records hold the same product and the same unordered buyer/seller pair *)
SamePair(c, d) ==
    /\ c.product = d.product
    /\ {c.buyer, c.seller} = {d.buyer, d.seller}

(* two create-or-get calls name the same parties in swapped roles *)
Swapped(q, r) ==
    /\ q.product = r.product
    /\ q.buyer = r.seller
    /\ q.seller = r.buyer

(* C1: in every reachable state no two distinct Conversation records have  *)
(* the same product and the same unordered {buyer, seller} pair, whichever *)
(* party is recorded as buyer and which as seller.                         *)
NoBidirectionalDuplicates ==
    \A i, j \in 1..Len(convs) : i # j => ~SamePair(convs[i], convs[j])

(* C2: a create-or-get call for (p, b, s) followed in turn by one for      *)
(* (p, s, b) returns the same Conversation id both times, and the second   *)
(* call creates no record: any two answers given to calls that name the    *)
(* same parties in swapped roles carry one id.                             *)
SwappedRolesSameId ==
    \A a, b \in answers : Swapped(a.q, b.q) => a.id = b.id

(* C3: create-or-get handlers that run concurrently with the identical     *)
(* normalized (product, buyer, seller) create exactly one record and all   *)
(* return that record's id: no two records hold the same exact key, and    *)
(* all answers to one query carry one id.                                  *)
ConcurrentCreateOnce ==
    /\ \A i, j \in 1..Len(convs) :
          i # j => BuildQuery(convs[i].product, convs[i].buyer, convs[i].seller)
                   # BuildQuery(convs[j].product, convs[j].buyer, convs[j].seller)
    /\ \A a, b \in answers : a.q = b.q => a.id = b.id

(* a step of the create-or-get handler in slot i *)
PostStepOf(i) == reqs[i].kind = "post" /\ reqs'[i] # reqs[i]

(* the create-or-get call in slot i repeats a call that was answered *)
Repeats(i) == \E a \in answers : a.q = reqs[i].q

(* C4: calling create-or-get twice in turn with the same arguments yields  *)
(* the same Conversation id both times, and the second call leaves the     *)
(* store unchanged: every step of a call whose arguments were answered     *)
(* before keeps the collection as it is (no record added; product, buyer,  *)
(* seller and messages of every record as before), and its answer carries  *)
(* the id of the earlier answers.                                          *)
RepeatedCreateOrGetIsIdempotent ==
    [][\A i \in Slots :
          (PostStepOf(i) /\ Repeats(i)) =>
              /\ convs' = convs
              /\ resp'.route = "post" =>
                    \A a \in answers : a.q = reqs[i].q => resp'.res = a.id]_vars

(* C4 witness: a create-or-get call has just been answered with a record   *)
(* that already holds a message, so it repeats the call that created it.   *)
RepeatedCallAnswered ==
    /\ resp.route = "post"
    /\ resp.res \in 1..Len(convs)
    /\ convs[resp.res].messages # <<>>

(* ========================== append properties ========================= *)
(* the ObjectIds of the messages stored in conversation id, in order *)
MessageOids(id) == [j \in 1..Len(convs[id].messages) |-> convs[id].messages[j].oid]

(* where the message with ObjectId oid is stored in conversation id *)
Positions(id, oid) == {j \in 1..Len(convs[id].messages) : MessageOids(id)[j] = oid}

(* the appends the store has applied to conversation id *)
CommittedTo(id) == {k \in committed : k.cid = id}

(* neither append had finished when the other started *)
Concurrent(a, b) == a.oid # b.oid /\ a.oid \notin b.after /\ b.oid \notin a.after

(* C5: appends to one conversation that run concurrently, over HTTP and    *)
(* over send_message, in any interleaving of their store steps, each leave *)
(* their message in the conversation exactly once: the stored sequence     *)
(* holds every applied append once and nothing else.                       *)
NoAppendLostOrDuplicated ==
    /\ \A k \in committed :
          k.cid \in 1..Len(convs) /\ Cardinality(Positions(k.cid, k.oid)) = 1
    /\ \A id \in 1..Len(convs) :
          Len(convs[id].messages) = Cardinality(CommittedTo(id))

(* C5 witness: two appends that ran concurrently have both been applied to *)
(* the same conversation.                                                  *)
TwoConcurrentAppendsApplied ==
    \E a, b \in committed : a.cid = b.cid /\ Concurrent(a, b)

(* C6: when an append of m1 finished before an append of m2 to the same    *)
(* conversation started, the conversation stores m1 before m2, and the     *)
(* sequence ends with m1, m2 when these are the last appends applied.      *)
SequentialAppendsKeepOrder ==
    \A a, b \in committed :
        (a.cid = b.cid /\ a.oid \in b.after) =>
            /\ \A i \in Positions(a.cid, a.oid), j \in Positions(b.cid, b.oid) : i < j
            /\ Cardinality(CommittedTo(a.cid)) = 2 =>
                  MessageOids(a.cid) = <<a.oid, b.oid>>

(* C6 witness: an append that started after another one to the same        *)
(* conversation had finished has been applied.                             *)
TwoAppendsInTurnApplied ==
    \E a, b \in committed : a.cid = b.cid /\ a.oid \in b.after

IsPrefix(s, t) == Len(s) <= Len(t) /\ \A j \in 1..Len(s) : s[j] = t[j]

(* C7: conversations are append-only.  In every step of every operation    *)
(* no conversation is deleted, each existing conversation keeps its id     *)
(* (its place in the collection), product, buyer and seller, and its       *)
(* message sequence before the step is a prefix of the one after it.       *)
ConversationsAppendOnly ==
    [][/\ Len(convs') >= Len(convs)
       /\ \A id \in 1..Len(convs) :
             /\ convs'[id].product = convs[id].product
             /\ convs'[id].buyer = convs[id].buyer
             /\ convs'[id].seller = convs[id].seller
             /\ IsPrefix(convs[id].messages, convs'[id].messages)]_vars

(* C7 witness: records have been created and one of them has been appended *)
(* to twice.                                                               *)
StoreHasGrown ==
    /\ Len(convs) = MaxConvs
    /\ \E id \in 1..Len(convs) : Len(convs[id].messages) = MaxMsgs

(* a step of the handler in slot i of the given kind *)
StepOf(i, kind) == reqs[i].kind = kind /\ reqs'[i] # reqs[i]

(* C8: an append whose conversation id is well formed but names no stored  *)
(* conversation yields NotFound (HTTP 404; message_error "Conversation not *)
(* found" to the sender), creates no record and leaves every conversation  *)
(* unchanged.                                                              *)
MissingConversationIsNotFound ==
    [][\A i \in Slots :
          /\ (StepOf(i, "append") /\ FindById(convs, reqs[i].cid) = 0) =>
                /\ resp'.route = "append" /\ resp'.status = "404"
                /\ convs' = convs
          /\ (StepOf(i, "send") /\ reqs[i].pc # "emit"
                /\ FindById(convs, reqs[i].cid) = 0) =>
                /\ reqs'[i].pc = "emit" /\ reqs'[i].status = "notfound"
                /\ convs' = convs
          /\ (StepOf(i, "send") /\ reqs[i].pc = "emit"
                /\ reqs[i].status = "notfound") =>
                /\ convs' = convs
                /\ \A c \in Conns :
                      out'[c] # <<>> =>
                          /\ out'[c][1].ev = "message_error"
                          /\ out'[c][1].info = "Conversation not found"
                /\ sockets[reqs[i].conn] = "connected" => out'[reqs[i].conn] # <<>>]_vars

(* C8 witness: an HTTP append to an id that names no record has just been  *)
(* answered 404 while a conversation with a message is stored.             *)
AppendToMissingAnswered ==
    /\ resp.route = "append" /\ resp.status = "404"
    /\ \E id \in 1..Len(convs) : convs[id].messages # <<>>

(* ========================= realtime properties ======================== *)
(* the events of one kind delivered to connection c by the last step *)
Received(c, ev) == {k \in 1..Len(out[c]) : out[c][k].ev = ev}

(* C9: room isolation.  A connection never receives a receive_message      *)
(* event caused by a send_message addressed to a room it has not joined;   *)
(* in particular one that has joined only room A receives none for room B. *)
RoomIsolation ==
    \A c \in Conns : \A k \in Received(c, "receive_message") :
        out[c][k].room \in rooms[c]

(* C9 witness: a send_message to one room has just been broadcast to a     *)
(* member of that room while another connection, joined only to a          *)
(* different room, received nothing.                                       *)
OtherRoomStaysSilent ==
    \E c, d \in Conns, a, b \in RoomIds :
        /\ a # b /\ rooms[c] = {a} /\ out[c] = <<>>
        /\ b \in rooms[d] /\ Received(d, "receive_message") # {}
        /\ out[d][1].room = b

(* C10: when send_message to an existing conversation succeeds, every      *)
(* member of the conversation's room at broadcast time, and nobody else,   *)
(* receives one receive_message event whose payload carries the sender,    *)
(* text and creation timestamp of the message stored in the conversation.  *)
BroadcastCarriesStoredMessage ==
    \A c \in Conns : \A k \in Received(c, "receive_message") :
        LET e == out[c][k]
        IN /\ \A d \in Conns :
                 out[d] = IF d \in RoomMembers(e.room) THEN <<e>> ELSE <<>>
           /\ e.room \in 1..Len(convs)
           /\ \E j \in Positions(e.room, e.oid) :
                 LET m == convs[e.room].messages[j]
                 IN /\ e.payload.sender = m.sender
                    /\ e.payload.text = m.text
                    /\ e.payload.time = m.createdAt

(* the message_error event the catch block emits (index.js 190-193) *)
IsFailure(e) == e.ev = "message_error" /\ e.info = "Failed to send message"

IsNotFound(e) == e.ev = "message_error" /\ e.info = "Conversation not found"

(* C12: a send_message that names a conversation id with no record         *)
(* delivers message_error to the sending connection only: no other         *)
(* connection receives anything, nobody receives receive_message, and the  *)
(* store is unchanged by the handler's steps.                              *)
NotFoundGoesToSenderOnly ==
    [][\A i \in Slots :
          /\ (StepOf(i, "send") /\ reqs[i].pc # "emit"
                /\ FindById(convs, reqs[i].cid) = 0) =>
                convs' = convs /\ out' = NoOut
          /\ (StepOf(i, "send") /\ reqs[i].pc = "emit"
                /\ reqs[i].status = "notfound") =>
                /\ convs' = convs
                /\ \A d \in Conns \ {reqs[i].conn} : out'[d] = <<>>
                /\ \A k \in 1..Len(out'[reqs[i].conn]) :
                      IsNotFound(out'[reqs[i].conn][k])
                /\ Len(out'[reqs[i].conn]) =
                      IF sockets[reqs[i].conn] = "connected" THEN 1 ELSE 0]_vars

(* C12 witness: the sender has just received message_error for a missing   *)
(* conversation while another connected socket, joined to the room of that *)
(* id, received nothing.                                                   *)
NotFoundReported ==
    \E c, d \in Conns :
        /\ c # d /\ sockets[d] = "connected"
        /\ Len(out[c]) = 1 /\ IsNotFound(out[c][1])
        /\ out[c][1].room \in rooms[d]
        /\ out[d] = <<>>

(* ======================= normalization properties ===================== *)
(* C13: identifier normalization is idempotent: for every input among the  *)
(* representative shapes, normalizeVal(normalizeVal(x)) = normalizeVal(x).  *)
NormalizeValIdempotent ==
    renormalized # Pending => renormalized = normalized

(* C14: two wire forms of one entity normalize to equal identifiers: a     *)
(* string of digits n normalizes as the integer n does, and an object with *)
(* a reference field (_id, else id) normalizes as that field's value does. *)
WireFormsNormalizeEqual ==
    normalized # Pending =>
        /\ raw.t = "dstr" => normalized = NormalizeVal(Num(raw.n))
        /\ (raw.t = "obj" /\ raw.f_id # Null) => normalized = NormalizeVal(raw.f_id)
        /\ (raw.t = "obj" /\ raw.f_id = Null /\ raw.fid # Null) =>
               normalized = NormalizeVal(raw.fid)

(* C15: a null or absent product, buyer or seller in a create-or-get call  *)
(* is an empty identifier that matches no other identity: the call is      *)
(* never answered with a conversation whose corresponding field holds a    *)
(* non-empty identifier.                                                   *)
EmptyIdentifierMatchesOnlyEmpty ==
    \A a \in answers :
        /\ a.q.product = Null => convs[a.id].product = Null
        /\ a.q.buyer = Null => convs[a.id].buyer = Null
        /\ a.q.seller = Null => convs[a.id].seller = Null

(* C16: an HTTP append whose conversation id is not a well-formed store    *)
(* key is answered 400 (InvalidIdentifier), a well-formed id with no       *)
(* record is answered 404 (NotFound), the two differ, and in both cases    *)
(* the store is unchanged.                                                 *)
InvalidIdIsNotNotFound ==
    [][/\ \A s \in Senders, x \in Texts :
             AppendStart(BadId, s, x) =>
                 /\ resp'.route = "append" /\ resp'.status = "400"
                 /\ convs' = convs
       /\ \A i \in Slots :
             (StepOf(i, "append") /\ FindById(convs, reqs[i].cid) = 0) =>
                 /\ resp'.route = "append" /\ resp'.status = "404"
                 /\ resp'.status # AppendStatus(BadId, 0)
                 /\ convs' = convs]_vars

(* C16 witness: an HTTP append to a malformed id has just been answered    *)
(* 400 while a conversation with a message is stored.                      *)
AppendToMalformedAnswered ==
    /\ resp.route = "append" /\ resp.status = "400"
    /\ \E id \in 1..Len(convs) : convs[id].messages # <<>>

(* C17: the legacy sendMessage event is room-agnostic: it delivers one     *)
(* newMessage event with the given data to every connected client whatever *)
(* rooms it has joined and to nobody else, emits no receive_message, and   *)
(* changes nothing in the conversation store.                              *)
LegacyReachesEveryClient ==
    [][\A c \in Conns, d \in LegacyData :
          LegacySendMessage(c, d) =>
              /\ \A x \in Conns :
                    IF sockets[x] = "connected"
                    THEN /\ Len(out'[x]) = 1
                         /\ out'[x][1].ev = "newMessage"
                         /\ out'[x][1].info = d
                    ELSE out'[x] = <<>>
              /\ convs' = convs /\ committed' = committed]_vars

(* C17 witness: newMessage has just reached two connected clients, one of  *)
(* which has joined a room while the other has joined none.                *)
LegacyDelivered ==
    \E c, d \in Conns :
        /\ rooms[c] # {} /\ rooms[d] = {}
        /\ Received(c, "newMessage") # {} /\ Received(d, "newMessage") # {}
        /\ convs # <<>>

(* C18: after a connection disconnects it is a member of no room and no    *)
(* later step delivers any event to it; the disconnect itself changes no   *)
(* stored conversation and leaves the rooms of all other connections as    *)
(* they were.                                                              *)
DisconnectedIsOut ==
    [][/\ \A c \in Conns :
             sockets'[c] = "disconnected" => rooms'[c] = {} /\ out'[c] = <<>>
       /\ \A c \in Conns :
             Disconnect(c) =>
                 /\ convs' = convs
                 /\ \A d \in Conns \ {c} : rooms'[d] = rooms[d]]_vars

(* C18 witness: a broadcast has just reached a room member while another   *)
(* connection is disconnected.                                             *)
BroadcastAfterDisconnect ==
    \E c, d \in Conns :
        /\ sockets[c] = "disconnected"
        /\ rooms[d] # {} /\ Received(d, "receive_message") # {}

(* C19: join_room is idempotent and needs no store lookup.  A join adds    *)
(* the room to the socket's rooms and a join of a room already joined      *)
(* changes no membership; a connected socket can join any id, whether or   *)
(* not a conversation with that id exists; the store is untouched; and a   *)
(* room broadcast reaches a member exactly once.                           *)
JoinRoomIdempotent ==
    [][/\ \A c \in Conns, r \in RoomIds :
             /\ sockets[c] = "connected" => ENABLED JoinRoom(c, r)
             /\ JoinRoom(c, r) =>
                   /\ rooms'[c] = rooms[c] \cup {r}
                   /\ r \in rooms[c] => rooms' = rooms
                   /\ \A d \in Conns \ {c} : rooms'[d] = rooms[d]
                   /\ convs' = convs
       /\ \A c \in Conns :
             (\E k \in 1..Len(out'[c]) : out'[c][k].ev = "receive_message") =>
                 Len(out'[c]) = 1]_vars

(* C19 witness: a socket that is in a room for which no conversation       *)
(* exists, and in a room for which one does, has just received a           *)
(* broadcast.                                                              *)
JoinedUnknownRoom ==
    \E c \in Conns, r \in RoomIds :
        /\ r \in rooms[c] /\ FindById(convs, r) = 0
        /\ Received(c, "receive_message") # {}

(* C20: an append made through POST /:id/message stores the message in the *)
(* conversation but delivers nothing in real time: no step of the route    *)
(* emits any event to any connection, room member or not.                  *)
HttpAppendIsSilent ==
    [][/\ \A id \in ConvIds, s \in Senders, x \in Texts :
             AppendStart(id, s, x) => out' = NoOut
       /\ \A i \in Slots :
             StepOf(i, "append") =>
                 /\ out' = NoOut
                 /\ FindById(convs, reqs[i].cid) # 0 =>
                       /\ resp'.route = "append" /\ resp'.status = "200"
                       /\ convs'[reqs[i].cid].messages =
                             Append(convs[reqs[i].cid].messages, reqs[i].msg)]_vars

(* C20 witness: an HTTP append to a conversation has just been answered    *)
(* 200 while a connected socket is a member of that conversation's room.   *)
AppendedWithMemberInRoom ==
    /\ resp.route = "append" /\ resp.status = "200"
    /\ \E c \in Conns : sockets[c] = "connected" /\ resp.res \in rooms[c]
    /\ convs[resp.res].messages # <<>>

(* ========================= failure properties ========================= *)
(* C21: when the store is unreachable or times out, every request          *)
(* operation (create-or-get, append, get by id, list) answers 503, which   *)
(* is neither the generic 500 nor a success.                               *)
StoreUnavailableIs503 ==
    [][\A e \in StoreErrors :
          (\/ \E i \in Slots : PostFail(i, e)
           \/ \E i \in Slots : AppendFail(i, e)
           \/ ListFail(e)
           \/ \E id \in ConvIds : GetFail(id, e)) =>
              resp'.status = "503"]_vars

(* C22: in every reachable state the sender of every message stored in a   *)
(* conversation equals that conversation's buyer or its seller, whether    *)
(* the message came through the HTTP append route or through send_message. *)
SenderIsParty ==
    \A id \in 1..Len(convs) : \A j \in 1..Len(convs[id].messages) :
        convs[id].messages[j].sender \in {convs[id].buyer, convs[id].seller}

(* C23: every send_message the server received is answered in the end,    *)
(* given that the store answers or rejects each operation: the handler     *)
(* comes to its end, and it ends only by emitting, either receive_message  *)
(* to the conversation's room or message_error to the sending connection;  *)
(* it never ends silently.                                                 *)
SendAlwaysAnswered ==
    /\ \A i \in Slots : (reqs[i].kind = "send") ~> (reqs[i].kind = "idle")
    /\ [][\A i \in Slots :
             (StepOf(i, "send") /\ reqs'[i].kind = "idle") =>
                 /\ reqs[i].pc = "emit"
                 /\ IF reqs[i].status = "ok"
                    THEN \A d \in Conns :
                            IF sockets[d] = "connected" /\ reqs[i].cid \in rooms[d]
                            THEN /\ Len(out'[d]) = 1
                                 /\ out'[d][1].ev = "receive_message"
                                 /\ out'[d][1].oid = reqs[i].msg.oid
                            ELSE out'[d] = <<>>
                    ELSE /\ reqs[i].status \in {"notfound", "failed"}
                         /\ sockets[reqs[i].conn] = "connected" =>
                               /\ Len(out'[reqs[i].conn]) = 1
                               /\ out'[reqs[i].conn][1].ev = "message_error"]_vars

(* C23 witness: a send_message whose store operation was rejected has just *)
(* been answered with message_error.                                       *)
StoreFailureReported ==
    \E c \in Conns :
        /\ Len(out[c]) = 1 /\ IsFailure(out[c][1])
        /\ out[c][1].room \in RoomIds

(* C24: for two send_message events to the same conversation handled      *)
(* concurrently, the receive_message broadcasts are emitted in the order   *)
(* in which the two messages are stored: when a handler emits the          *)
(* broadcast of its message, the broadcast of every message stored before  *)
(* it in the conversation has been emitted already.                        *)
BroadcastOrderIsStoredOrder ==
    [][\A i \in Slots :
          (StepOf(i, "send") /\ reqs[i].pc = "emit" /\ reqs[i].status = "ok") =>
              \A p \in Positions(reqs[i].cid, reqs[i].msg.oid) :
                  \A j \in 1..(p - 1) :
                      convs[reqs[i].cid].messages[j].oid \in completed]_vars

(* C25: send_message does not require the sender to have joined the room.  *)
(* Any connected socket can start a send to any conversation id; when a    *)
(* send by a socket that is not in the room succeeds, the message is in    *)
(* the store, the sender receives neither receive_message nor              *)
(* message_error, and every member of the room receives the message.       *)
SendNeedsNoJoin ==
    [][/\ \A c \in Conns, id \in RoomIds, s \in Senders, x \in Texts :
             (sockets[c] = "connected" /\ FreeSlots # {}) =>
                 ENABLED SendStart(c, id, s, x)
       /\ \A i \in Slots :
             (StepOf(i, "send") /\ reqs[i].pc = "emit" /\ reqs[i].status = "ok"
                /\ reqs[i].cid \notin rooms[reqs[i].conn]) =>
                 /\ Positions(reqs[i].cid, reqs[i].msg.oid) # {}
                 /\ out'[reqs[i].conn] = <<>>
                 /\ \A d \in Conns :
                       (sockets[d] = "connected" /\ reqs[i].cid \in rooms[d]) =>
                           /\ Len(out'[d]) = 1
                           /\ out'[d][1].ev = "receive_message"
                           /\ out'[d][1].oid = reqs[i].msg.oid]_vars

(* C25 witness: the message of a connected sender that is not in the room  *)
(* has been stored and its broadcast is due, while another connected       *)
(* socket is in the room.                                                  *)
OutsiderSendStored ==
    \E i \in Slots, d \in Conns :
        /\ reqs[i].kind = "send" /\ reqs[i].pc = "emit" /\ reqs[i].status = "ok"
        /\ sockets[reqs[i].conn] = "connected"
        /\ rooms[reqs[i].conn] = {}
        /\ d # reqs[i].conn /\ sockets[d] = "connected" /\ reqs[i].cid \in rooms[d]
        /\ Positions(reqs[i].cid, reqs[i].msg.oid) # {}

=============================================================================
